---- MODULE Spec2Model ----
(***************************************************************************)
(* The Proof-of-Work consensus engine of src/c3_consensus/p1_pow.rs:       *)
(* struct Pow, Pow::validate, Pow::seal and the two difficulty presets.    *)
(*                                                                         *)
(* u64 is scaled down to the range 0..U64_MAX.  The hash service           *)
(* (crate::hash) is an opaque deterministic function: it is chosen         *)
(* arbitrarily when a behaviour starts and never changes afterwards.       *)
(* crate::hash is generic; hash::<Header<()>> and hash::<Header<u64>> are  *)
(* different instances fed different data, so the value for a partial      *)
(* header and the values for its sealed forms are chosen independently.    *)
(***************************************************************************)
EXTENDS Integers, FiniteSets, Sequences, TLC

\* ------------------------------------------------------------------ bounds
\* The largest value of the scaled-down u64 (u64::MAX).
U64_MAX == 2

\* ------------------------------------------------------------------- types
U64 == 0..U64_MAX

\* The two callers that share one engine.
Callers == {"c1", "c2"}

\* The value of the digest field of a Header<()>.
Unit == <<>>

\* Header<()>: sample partial headers whose four fields are pairwise
\* different, so that a field written to the wrong place shows.
PartialHeaders ==
    { [parent           |-> 4 * i,
       height           |-> 4 * i + 1,
       extrinsics_root  |-> 4 * i + 2,
       state_root       |-> 4 * i + 3,
       consensus_digest |-> Unit] : i \in {1, 2} }

\* Header { parent, height, extrinsics_root, state_root, consensus_digest }
Header(parent, height, extrinsics_root, state_root, consensus_digest) ==
    [parent           |-> parent,
     height           |-> height,
     extrinsics_root  |-> extrinsics_root,
     state_root       |-> state_root,
     consensus_digest |-> consensus_digest]

\* The Header<u64> values that share the fixed fields of partial header p.
SealedHeaders(p) ==
    { Header(p.parent, p.height, p.extrinsics_root, p.state_root, d) : d \in U64 }

\* Option<Header<u64>>
None == [some |-> FALSE]
Some(h) == [some |-> TRUE, value |-> h]

VARIABLES
    threshold,       \* Pow.threshold
    fixed,           \* the partial header this behaviour's calls are about
    hash_partial,    \* crate::hash on Header<()>
    hash_sealed,     \* crate::hash on Header<u64>
    pc,              \* where each caller is
    parent_digest,   \* the first argument of the caller's current call
    partial_header,  \* seal's second argument
    header,          \* validate's second argument
    nonce,           \* seal's loop variable
    tried,           \* the candidates seal has tested so far, in order
    verdict,         \* what validate returned
    sealed           \* what seal returned

vars == <<threshold, fixed, hash_partial, hash_sealed, pc, parent_digest,
          partial_header, header, nonce, tried, verdict, sealed>>

\* ------------------------------------------------------------- hash service
hash_unit(h) == hash_partial[h]

hash_u64(h) == hash_sealed[h]

\* ---------------------------------------------------------------- presets
moderate_difficulty_pow == [threshold |-> U64_MAX \div 100]

trivial_always_valid_pow == [threshold |-> U64_MAX]

\* ---------------------------------------------------------------- validate
\* validate with the comparison widened to <=.
validate_le(self, parent, h) ==
    LET header_hash == hash_u64(h)
    IN  header_hash <= self.threshold

validate(self, parent, h) ==
    LET header_hash == hash_u64(h)
    IN  header_hash < self.threshold

\* -------------------------------------------------------------------- seal
\* The returned header with the two roots exchanged.
SealedWith_swapped(p, n) ==
    Header(p.parent, p.height, p.state_root, p.extrinsics_root, n)

\* The header seal returns for the candidate nonce n.
SealedWith(p, n) ==
    Header(p.parent, p.height, p.extrinsics_root, p.state_root, n)

\* The loop's test with the comparison widened to <=.
SealTest_le(self, p, n) ==
    LET header_hash == hash_unit(p)
    IN  header_hash <= self.threshold

\* One pass of the loop body for candidate n: the test of line 33.
SealTest(self, p, n) ==
    LET header_hash == hash_unit(p)
    IN  header_hash < self.threshold

\* seal as a function of its arguments: the loop from candidate n onwards.
RECURSIVE seal_from(_, _, _, _)
seal_from(self, parent, p, n) ==
    IF n >= U64_MAX THEN None
    ELSE IF SealTest(self, p, n) THEN Some(SealedWith(p, n))
    ELSE seal_from(self, parent, p, n + 1)

seal(self, parent, p) == seal_from(self, parent, p, 0)

Pow == [threshold |-> threshold]

\* -------------------------------------------------------------------- Init
Init ==
    /\ threshold \in U64
    /\ fixed \in PartialHeaders
    /\ hash_partial \in [{fixed} -> U64]
    /\ hash_sealed \in [SealedHeaders(fixed) -> U64]
    /\ pc = [c \in Callers |-> "idle"]
    /\ parent_digest = [c \in Callers |-> 0]
    /\ partial_header = [c \in Callers |-> fixed]
    /\ header = [c \in Callers |-> SealedWith(fixed, 0)]
    /\ nonce = [c \in Callers |-> 0]
    /\ tried = [c \in Callers |-> <<>>]
    /\ verdict = [c \in Callers |-> FALSE]
    /\ sealed = [c \in Callers |-> None]

\* ----------------------------------------------------------------- actions
\* A caller calls validate; the call is one step.
Validate(c) ==
    /\ pc[c] = "idle"
    /\ \E pd \in {0, U64_MAX}, h \in SealedHeaders(fixed) :
         /\ parent_digest' = [parent_digest EXCEPT ![c] = pd]
         /\ header' = [header EXCEPT ![c] = h]
         /\ verdict' = [verdict EXCEPT ![c] = validate(Pow, pd, h)]
    /\ pc' = [pc EXCEPT ![c] = "validate_done"]
    /\ UNCHANGED <<threshold, fixed, hash_partial, hash_sealed,
                   partial_header, nonce, tried, sealed>>

\* A caller calls seal: the loop starts at candidate 0.
SealCall(c) ==
    /\ pc[c] = "idle"
    /\ \E pd \in {0, U64_MAX} :
         parent_digest' = [parent_digest EXCEPT ![c] = pd]
    /\ partial_header' = [partial_header EXCEPT ![c] = fixed]
    /\ nonce' = [nonce EXCEPT ![c] = 0]
    /\ tried' = [tried EXCEPT ![c] = <<>>]
    /\ pc' = [pc EXCEPT ![c] = "seal_loop"]
    /\ UNCHANGED <<threshold, fixed, hash_partial, hash_sealed,
                   header, verdict, sealed>>

\* A successful iteration that also lowers the engine's threshold.
SealFound_retarget(c) ==
    /\ pc[c] = "seal_loop"
    /\ nonce[c] < U64_MAX
    /\ SealTest(Pow, partial_header[c], nonce[c])
    /\ tried' = [tried EXCEPT ![c] = Append(@, nonce[c])]
    /\ sealed' = [sealed EXCEPT ![c] = Some(SealedWith(partial_header[c], nonce[c]))]
    /\ pc' = [pc EXCEPT ![c] = "seal_done"]
    /\ threshold' = IF threshold > 0 THEN threshold - 1 ELSE threshold
    /\ UNCHANGED <<fixed, hash_partial, hash_sealed, parent_digest,
                   partial_header, header, nonce, verdict>>

\* One iteration whose test succeeds: return Some(Header {..}).
SealFound(c) ==
    /\ pc[c] = "seal_loop"
    /\ nonce[c] < U64_MAX
    /\ SealTest(Pow, partial_header[c], nonce[c])
    /\ tried' = [tried EXCEPT ![c] = Append(@, nonce[c])]
    /\ sealed' = [sealed EXCEPT ![c] = Some(SealedWith(partial_header[c], nonce[c]))]
    /\ pc' = [pc EXCEPT ![c] = "seal_done"]
    /\ UNCHANGED <<threshold, fixed, hash_partial, hash_sealed, parent_digest,
                   partial_header, header, nonce, verdict>>

\* A failed iteration whose counter wraps around inside the range.
SealNext_wrap(c) ==
    /\ pc[c] = "seal_loop"
    /\ nonce[c] < U64_MAX
    /\ ~SealTest(Pow, partial_header[c], nonce[c])
    /\ tried' = [tried EXCEPT ![c] = IF Len(@) < U64_MAX + 1 THEN Append(@, nonce[c]) ELSE @]
    /\ nonce' = [nonce EXCEPT ![c] = (@ + 1) % U64_MAX]
    /\ UNCHANGED <<threshold, fixed, hash_partial, hash_sealed, pc, parent_digest,
                   partial_header, header, verdict, sealed>>

\* One iteration whose test fails: on to the next candidate.
SealNext(c) ==
    /\ pc[c] = "seal_loop"
    /\ nonce[c] < U64_MAX
    /\ ~SealTest(Pow, partial_header[c], nonce[c])
    /\ tried' = [tried EXCEPT ![c] = Append(@, nonce[c])]
    /\ nonce' = [nonce EXCEPT ![c] = @ + 1]
    /\ UNCHANGED <<threshold, fixed, hash_partial, hash_sealed, pc, parent_digest,
                   partial_header, header, verdict, sealed>>

\* The range 0..u64::MAX is used up: return None.
SealExhausted(c) ==
    /\ pc[c] = "seal_loop"
    /\ nonce[c] >= U64_MAX
    /\ sealed' = [sealed EXCEPT ![c] = None]
    /\ pc' = [pc EXCEPT ![c] = "seal_done"]
    /\ UNCHANGED <<threshold, fixed, hash_partial, hash_sealed, parent_digest,
                   partial_header, header, nonce, tried, verdict>>

\* The caller takes the result and is free to call again.
Return(c) ==
    /\ pc[c] \in {"validate_done", "seal_done"}
    /\ pc' = [pc EXCEPT ![c] = "idle"]
    /\ parent_digest' = [parent_digest EXCEPT ![c] = 0]
    /\ header' = [header EXCEPT ![c] = SealedWith(fixed, 0)]
    /\ nonce' = [nonce EXCEPT ![c] = 0]
    /\ tried' = [tried EXCEPT ![c] = <<>>]
    /\ verdict' = [verdict EXCEPT ![c] = FALSE]
    /\ sealed' = [sealed EXCEPT ![c] = None]
    /\ UNCHANGED <<threshold, fixed, hash_partial, hash_sealed, partial_header>>

Step(c) ==
    \/ Validate(c)
    \/ SealCall(c)
    \/ SealFound(c)
    \/ SealNext(c)
    \/ SealExhausted(c)
    \/ Return(c)

\* One caller at a time.
Next == Step("c1")

Spec == Init /\ [][Next]_vars

\* Two callers, interleaved in any order.
NextConc == \E c \in Callers : Step(c)

SpecConc == Init /\ [][NextConc]_vars

\* The loop of a running seal call keeps executing.
FairSpec ==
    /\ Spec
    /\ WF_vars(SealFound("c1") \/ SealNext("c1") \/ SealExhausted("c1"))

\* ------------------------------------------------------------------ claims
\* The candidate nonces of seal's range, 0..u64::MAX (u64::MAX excluded).
Candidates == 0..(U64_MAX - 1)

\* C1: when seal returns Some(sealed), validate on that sealed header
\* (hashing the full header with its digest) returns true.
C1_RoundTrip ==
    \A c, d \in Callers :
        (/\ pc[c] = "seal_done"
         /\ sealed[c].some
         /\ pc[d] = "validate_done"
         /\ header[d] = sealed[c].value)
        => verdict[d] = TRUE

\* C2: validate returns true exactly when the hash of the full header is
\* strictly below the threshold; two calls on the same header agree, also
\* when their parent digests differ.
C2_ValidateIffBelow ==
    /\ \A c \in Callers :
         pc[c] = "validate_done"
         => (verdict[c] <=> hash_u64(header[c]) < threshold)
    /\ \A c, d \in Callers :
         (/\ pc[c] = "validate_done"
          /\ pc[d] = "validate_done"
          /\ header[c] = header[d])
         => verdict[c] = verdict[d]

C2_Witness ==
    /\ pc["c1"] = "validate_done"
    /\ pc["c2"] = "validate_done"
    /\ header["c1"] = header["c2"]
    /\ parent_digest["c1"] # parent_digest["c2"]
    /\ verdict["c1"] = TRUE
    /\ hash_u64(header["c1"]) + 1 = threshold

\* C3: with the trivial engine's threshold, validate returns true for every
\* header, whatever its hash.
C3_TrivialValidatesAll ==
    \A c \in Callers :
        (/\ threshold = trivial_always_valid_pow.threshold
         /\ pc[c] = "validate_done")
        => verdict[c] = TRUE

\* C4: with the trivial engine's threshold, seal returns Some on the first
\* candidate: the digest is 0, the other fields are the input's, and the
\* result is never None.
C4_TrivialSealsFirst ==
    \A c \in Callers :
        (/\ threshold = trivial_always_valid_pow.threshold
         /\ pc[c] = "seal_done")
        => /\ sealed[c] = Some(Header(partial_header[c].parent,
                                      partial_header[c].height,
                                      partial_header[c].extrinsics_root,
                                      partial_header[c].state_root, 0))
           /\ tried[c] = <<0>>

\* C5: whenever seal returns Some(sealed), the parent, height,
\* extrinsics_root and state_root of sealed are those of the partial header.
C5_SealKeepsFields ==
    \A c \in Callers :
        (pc[c] = "seal_done" /\ sealed[c].some)
        => /\ sealed[c].value.parent = partial_header[c].parent
           /\ sealed[c].value.height = partial_header[c].height
           /\ sealed[c].value.extrinsics_root = partial_header[c].extrinsics_root
           /\ sealed[c].value.state_root = partial_header[c].state_root
           /\ sealed[c].value.consensus_digest \in U64

C5_Witness ==
    /\ pc["c1"] = "seal_done"
    /\ sealed["c1"].some
    /\ threshold < U64_MAX
    /\ partial_header["c1"].height = 9

\* C6: with threshold 0, validate returns false for every header, and seal
\* tests every candidate of its range without success and returns None.
C6_ZeroThreshold ==
    \A c \in Callers :
        threshold = 0
        => /\ pc[c] = "validate_done" => verdict[c] = FALSE
           /\ pc[c] = "seal_done"
              => /\ sealed[c] = None
                 /\ tried[c] = [i \in 1..U64_MAX |-> i - 1]

C6_Witness ==
    /\ threshold = 0
    /\ pc["c1"] = "seal_done"
    /\ sealed["c1"] = None
    /\ Len(tried["c1"]) = U64_MAX
    /\ pc["c2"] = "validate_done"
    /\ verdict["c2"] = FALSE
    /\ hash_u64(header["c2"]) = 0
    /\ hash_unit(partial_header["c1"]) = 0

\* C7: seal returns None exactly when no candidate n of the range makes the
\* header with p's fixed fields and digest n hash below the threshold.
C7_NoneIffNoCandidate ==
    \A c \in Callers :
        pc[c] = "seal_done"
        => (sealed[c] = None
            <=> ~\E n \in Candidates :
                    hash_u64(Header(partial_header[c].parent,
                                    partial_header[c].height,
                                    partial_header[c].extrinsics_root,
                                    partial_header[c].state_root, n)) < threshold)

\* C8: the digest seal returns is the smallest candidate n whose header
\* (p's fixed fields combined with n) hashes below the threshold.
C8_SmallestCandidate ==
    \A c \in Callers :
        (pc[c] = "seal_done" /\ sealed[c].some)
        => LET below(n) ==
                   hash_u64(Header(partial_header[c].parent,
                                   partial_header[c].height,
                                   partial_header[c].extrinsics_root,
                                   partial_header[c].state_root, n)) < threshold
               got == sealed[c].value.consensus_digest
           IN  /\ got \in Candidates
               /\ below(got)
               /\ \A n \in Candidates : n < got => ~below(n)

\* C9: every seal call returns; its candidates are 0, 1, 2, ... in order,
\* each once, u64::MAX is neither tested nor returned, and the call ends
\* when the range is used up.
C9_SealTerminates ==
    /\ [](\A c \in Callers :
            /\ Len(tried[c]) <= U64_MAX
            /\ tried[c] = [i \in 1..Len(tried[c]) |-> i - 1]
            /\ \A i \in 1..Len(tried[c]) : tried[c][i] < U64_MAX
            /\ (pc[c] = "seal_done" /\ sealed[c].some)
               => sealed[c].value.consensus_digest < U64_MAX
            /\ (pc[c] = "seal_done" /\ ~sealed[c].some)
               => Len(tried[c]) = U64_MAX)
    /\ (pc["c1"] = "seal_loop") ~> (pc["c1"] = "seal_done")

C9_Witness ==
    /\ pc["c1"] = "seal_done"
    /\ sealed["c1"] = None
    /\ threshold > 0
    /\ tried["c1"] = [i \in 1..U64_MAX |-> i - 1]

\* C10: with callers interleaved in any order the threshold never changes,
\* and every finished call holds the result the call has as a function of
\* its own arguments.
C10_CallsIndependent ==
    /\ [][threshold' = threshold]_vars
    /\ [](\A c \in Callers :
            /\ pc[c] = "validate_done"
               => verdict[c] = validate(Pow, parent_digest[c], header[c])
            /\ pc[c] = "seal_done"
               => sealed[c] = seal(Pow, parent_digest[c], partial_header[c]))

C10_Witness ==
    /\ pc["c1"] = "seal_done"
    /\ sealed["c1"] = None
    /\ pc["c2"] = "validate_done"
    /\ verdict["c2"] = TRUE
    /\ parent_digest["c1"] # parent_digest["c2"]

====
